---- MODULE Spec2Model ----
(***************************************************************************)
(* Key-derivation pipeline of key_derivation.py: EIP-712 signing, HKDF,    *)
(* the secp256k1 validity loop, keypair/DID materialization and the        *)
(* round-trip verifier.                                                    *)
(*                                                                         *)
(* Byte strings are sequences of 0..255.  Python strings are sequences of  *)
(* code points.  A Python int made by bytes_to_int is kept as its          *)
(* big-endian digit sequence without leading zeros, so that 256-bit values *)
(* are compared exactly.  HMAC-SHA256 is a function whose values are not   *)
(* computed here: every behaviour fixes one function, chosen initially     *)
(* among all the functions that give inputs of one class the same digest.  *)
(* The ECDSA signer, the curve's point multiplication and the address of   *)
(* an account are the libraries' functions on the values the model uses.   *)
(***************************************************************************)
EXTENDS Integers, Sequences, FiniteSets, TLC

(* ------------------------------ bounds --------------------------------- *)

\* Number of classes into which the inputs of HMAC-SHA256 fall; inputs of one
\* class have the same digest.
NumBuckets == 3

\* Largest max_attempts passed to a direct call of ensure_valid_secp256k1_key.
MaxAttempts == 2

(* ----------------------------- byte strings ---------------------------- *)

Rep(b, n) == [i \in 1..n |-> b]

Str_user_secret == <<117, 115, 101, 114, 64, 115, 101, 99, 114, 101, 116, 46, 99, 111, 109>>

Str_other_secret == <<112, 119, 49>>

Str_nillion == <<110, 105, 108, 108, 105, 111, 110>>

COMMON_KDF_SALT == <<83, 73, 71, 78, 65, 84, 85, 82, 69, 95, 73, 78, 84, 69, 71, 82, 65, 84, 69, 68, 95, 75, 68, 70, 95, 118, 49>>

SECP256K1_RETRY == <<83, 69, 67, 80, 50, 53, 54, 75, 49, 95, 82, 69, 84, 82, 89>>

\* 0xFFFFFFFF FFFFFFFF FFFFFFFF FFFFFFFE BAAEDCE6 AF48A03B BFD25E8C D0364141
SECP256K1_ORDER == <<255, 255, 255, 255, 255, 255, 255, 255, 255, 255, 255, 255, 255, 255, 255, 254, 186, 174, 220, 230, 175, 72, 160, 59, 191, 210, 94, 140, 208, 54, 65, 65>>

Zero32 == Rep(0, 32)

One32 == Rep(0, 31) \o <<1>>

OrderMinus1 == SubSeq(SECP256K1_ORDER, 1, 31) \o <<64>>

Max32 == Rep(255, 32)

(* ------------------------------ integers ------------------------------- *)

\* s without the zero bytes at its front
StripLeadingZeros(s) ==
    CHOOSE r \in { LET nonzero == {i \in 1..Len(v) : v[i] # 0}
                   IN  IF nonzero = {} THEN <<>>
                       ELSE SubSeq(v, CHOOSE i \in nonzero : \A j \in nonzero : i <= j,
                                   Len(v))
                   : v \in {s} } : TRUE

\* int.from_bytes(data, byteorder='big')
bytes_to_int(data) == StripLeadingZeros(data)

\* a < b on digit sequences without leading zeros
IntLess(a, b) ==
    \E x \in {a}, y \in {b} :
        \/ Len(x) < Len(y)
        \/ /\ Len(x) = Len(y)
           /\ \E i \in 1..Len(x) :
                /\ x[i] < y[i]
                /\ \A j \in 1..(i - 1) : x[j] = y[j]

IntZero == <<>>

\* the upper bound is not strict: 0 < key_value <= SECP256K1_ORDER
InRange_inclusive(key_value) ==
    /\ IntLess(IntZero, key_value)
    /\ ~IntLess(bytes_to_int(SECP256K1_ORDER), key_value)

\* 0 < key_value < SECP256K1_ORDER
InRange(key_value) ==
    /\ IntLess(IntZero, key_value)
    /\ IntLess(key_value, bytes_to_int(SECP256K1_ORDER))

\* counter.to_bytes(4, byteorder='big'); OverflowError when it does not fit
COUNTER_BYTES == 4

RECURSIVE Pow256(_)
Pow256(e) == IF e = 0 THEN 1 ELSE 256 * Pow256(e - 1)

ToBytesOverflows(n, len) ==
    n < 0 \/ (n \div Pow256(len - 1)) >= 256

to_bytes(n, len) == [i \in 1..len |-> (n \div Pow256(len - i)) % 256]

(* ------------------------- strings and encodings ----------------------- *)

HexDigits == <<48, 49, 50, 51, 52, 53, 54, 55, 56, 57, 97, 98, 99, 100, 101, 102>>

\* the concatenation of piece(s[i]) for i = from..Len(s); s is bound to its
\* value once, by the set constructor
RECURSIVE ConcatFrom(_, _, _)
ConcatFrom(piece(_), s, from) ==
    IF from > Len(s) THEN <<>>
    ELSE piece(s[from]) \o ConcatFrom(piece, s, from + 1)

ConcatMap(piece(_), s) == CHOOSE r \in {ConcatFrom(piece, v, 1) : v \in {s}} : TRUE

HexByte(b) == <<HexDigits[(b \div 16) + 1], HexDigits[(b % 16) + 1]>>

\* bytes.hex(): two lowercase hexadecimal characters per byte
Hex(data) == ConcatMap(HexByte, data)

Utf8Char(c) ==
    IF c < 128 THEN <<c>>
    ELSE IF c < 2048 THEN <<192 + (c \div 64), 128 + (c % 64)>>
    ELSE <<224 + (c \div 4096), 128 + ((c \div 64) % 64), 128 + (c % 64)>>

\* str.encode('utf-8') for code points below 0x10000
Utf8Encode(s) == ConcatMap(Utf8Char, s)

\* json.dumps of one character of a string (ensure_ascii is on)
JsonEscapeChar(c) ==
    IF c = 34 THEN <<92, 34>>
    ELSE IF c = 92 THEN <<92, 92>>
    ELSE IF c = 10 THEN <<92, 110>>
    ELSE IF c = 13 THEN <<92, 114>>
    ELSE IF c = 9 THEN <<92, 116>>
    ELSE IF c = 8 THEN <<92, 98>>
    ELSE IF c = 12 THEN <<92, 102>>
    ELSE IF c >= 32 /\ c <= 126 THEN <<c>>
    ELSE <<92, 117>> \o Hex(<<c \div 256, c % 256>>)

JsonEscape(s) == ConcatMap(JsonEscapeChar, s)

JsonString(s) == <<34>> \o JsonEscape(s) \o <<34>>

\* one member of an object, with the item separator in front of it
JsonMember(pair) == <<44>> \o JsonString(pair[1]) \o <<58>> \o JsonString(pair[2])

\* json.dumps(d, separators=(',', ':')) of a dict of strings, given as the
\* sequence of its (key, value) pairs in insertion order
json_dumps(d) ==
    LET members == ConcatMap(JsonMember, d)
    IN  <<123>> \o (IF members = <<>> THEN <<>> ELSE Tail(members)) \o <<125>>

Str_context == <<99, 111, 110, 116, 101, 120, 116>>

Str_keyId == <<107, 101, 121, 73, 100>>

\* SessionKeyAuthMessage.to_dict
to_dict(auth_message) ==
    << <<Str_context, auth_message.context>>, <<Str_keyId, auth_message.key_id>> >>

\* create_eip712_typed_data with the default domain name and version
create_eip712_typed_data(auth_message) ==
    [ primaryType |-> "SessionKeyAuthorization",
      types       |-> <<"context", "keyId">>,
      domain      |-> [name |-> "Welshare Health Wallet", version |-> "1.0"],
      message     |-> [context |-> auth_message.context, keyId |-> auth_message.key_id] ]

(* -------------------------- inputs of the model ------------------------ *)

\* the test key of the repository (account 0 of the Hardhat/Anvil mnemonic)
KeyA == <<172, 9, 116, 190, 195, 154, 23, 227, 107, 164, 166, 180, 210, 56, 255, 148, 75, 172, 180, 120, 203, 237, 94, 252, 174, 120, 77, 123, 244, 242, 255, 128>>

\* accounts 1 to 4 of the same mnemonic
KeyB == <<89, 198, 153, 94, 153, 143, 151, 165, 160, 4, 73, 102, 240, 148, 83, 137, 220, 158, 134, 218, 232, 140, 122, 132, 18, 244, 96, 59, 107, 120, 105, 13>>

KeyC == <<93, 228, 17, 26, 250, 26, 75, 148, 144, 143, 131, 16, 62, 177, 241, 112, 99, 103, 194, 230, 140, 168, 112, 252, 63, 185, 168, 4, 205, 171, 54, 90>>

KeyD == <<124, 133, 33, 24, 41, 78, 81, 230, 83, 113, 42, 129, 224, 88, 0, 244, 25, 20, 23, 81, 190, 88, 246, 5, 195, 113, 225, 81, 65, 176, 7, 166>>

KeyE == <<71, 225, 121, 236, 25, 116, 136, 89, 59, 24, 127, 128, 160, 14, 176, 218, 145, 241, 185, 208, 177, 63, 135, 51, 99, 159, 25, 195, 10, 52, 146, 106>>

\* the keys of the accounts of the mnemonic, by address index
HdKeys == <<KeyA, KeyB, KeyC, KeyD, KeyE>>

\* source keys: the test key, and the two 32-byte values next to the ends of
\* the range of the scalars, 0 and the order
SourceKeys == {KeyA, Zero32, SECP256K1_ORDER}

\* the key ids "1", e with an acute accent and the empty string
AuthMessages ==
    { [key_id |-> <<49>>, context |-> Str_nillion],
      [key_id |-> <<233>>, context |-> Str_nillion],
      [key_id |-> <<>>, context |-> Str_nillion] }

UserSecrets == {Str_user_secret, Str_other_secret}

\* arguments of a direct call of hkdf: the salt is optional
HkdfInputs == {<<1>>, One32 \o <<0, 0, 0, 1>>}

HkdfInfos == {<<>>, SECP256K1_RETRY}

HkdfSalts ==
    { [given |-> FALSE, value |-> <<>>],
      [given |-> TRUE, value |-> <<>>],
      [given |-> TRUE, value |-> Str_nillion] }

OutputLengths == {0, 16, 32, 33, 64}

\* values an HMAC-SHA256 digest may take
Digests == {Zero32, One32, OrderMinus1}

\* initial candidates of a direct call of ensure_valid_secp256k1_key
Candidates == Digests \cup {SECP256K1_ORDER, Max32}

(* ------------------------------ libraries ------------------------------ *)

\* eth_account: Account.from_key accepts 32-byte keys in (0, n)
ValidSourceKey(private_key) ==
    /\ Len(private_key) = 32
    /\ bytes_to_int(private_key) # IntZero
    /\ IntLess(bytes_to_int(private_key), bytes_to_int(SECP256K1_ORDER))

\* eth_account: Account.from_key(private_key).address
AddressOf(private_key) ==
    CASE private_key = KeyA -> "0xf39Fd6e51aad88F6F4ce6aB8827279cffFb92266"
      [] private_key = KeyB -> "0x70997970C51812dc3A010C7d01b50e0d17dc79C8"
      [] private_key = KeyC -> "0x3C44CdDdB6a900fa2b585dd299e03d12FA4293BC"
      [] private_key = KeyD -> "0x90F79bf6EB2c4f870365E785982E1f101E93b906"
      [] private_key = KeyE -> "0x15d34AAf54267DB7D7c367839AAf71A00a2C6A65"

PubG == <<121, 190, 102, 126, 249, 220, 187, 172, 85, 160, 98, 149, 206, 135, 11, 7, 2, 155, 252, 219, 45, 206, 40, 217, 89, 242, 129, 91, 22, 248, 23, 152, 72, 58, 218, 119, 38, 163, 196, 101, 93, 164, 251, 252, 14, 17, 8, 168, 253, 23, 180, 72, 166, 133, 84, 25, 156, 71, 208, 143, 251, 16, 212, 184>>

PubNegG == <<121, 190, 102, 126, 249, 220, 187, 172, 85, 160, 98, 149, 206, 135, 11, 7, 2, 155, 252, 219, 45, 206, 40, 217, 89, 242, 129, 91, 22, 248, 23, 152, 183, 197, 37, 136, 217, 92, 59, 154, 162, 91, 4, 3, 241, 238, 247, 87, 2, 232, 75, 183, 89, 122, 171, 230, 99, 184, 47, 111, 4, 239, 39, 119>>

\* ecdsa: SigningKey.from_string(private_key, SECP256k1).get_verifying_key().to_string()
\* for the scalars 1 and n - 1, that is the points G and -G
VerifyingKeyOf(private_key) ==
    CASE private_key = One32 -> PubG
      [] private_key = OrderMinus1 -> PubNegG

\* 65-byte signatures r || s || v
SigA == Rep(17, 32) \o Rep(34, 32) \o <<27>>

SigB == Rep(51, 32) \o Rep(68, 32) \o <<28>>

SigC == Rep(85, 32) \o Rep(102, 32) \o <<27>>

SigD == Rep(119, 32) \o Rep(136, 32) \o <<28>>

\* the signature of account i of the mnemonic for the key id "1"
SigOfAccount(i) == Rep(200 + i, 32) \o Rep(210 + i, 32) \o <<27 + (i % 2)>>

Str_1 == <<49>>

\* eth_account: Account.from_key(private_key).sign_message(encode_typed_data(typed_data)).signature;
\* deterministic (RFC 6979), one signature for each key and message
SignatureOf(private_key, typed_data) ==
    CASE private_key = KeyA /\ typed_data.message.keyId = Str_1 -> SigA
      [] private_key = KeyA /\ typed_data.message.keyId = <<233>> -> SigB
      [] private_key = KeyA /\ typed_data.message.keyId = <<>> -> SigD
      [] private_key = KeyB /\ typed_data.message.keyId = Str_1 -> SigOfAccount(1)
      [] private_key = KeyC /\ typed_data.message.keyId = Str_1 -> SigOfAccount(2)
      [] private_key = KeyD /\ typed_data.message.keyId = Str_1 -> SigOfAccount(3)
      [] private_key = KeyE /\ typed_data.message.keyId = Str_1 -> SigOfAccount(4)

\* sum of the bytes of s, each weighted by its position
WeightedSum(s) ==
    LET partial[i \in 0..Len(s)] == IF i = 0 THEN 0 ELSE partial[i - 1] + i * s[i]
    IN  partial[Len(s)]

\* the class of an input of HMAC-SHA256: it depends on every byte of the key
\* and of the message, on their order and on their lengths
Bucket(key, msg) ==
    CHOOSE b \in { ((2 * WeightedSum(k) + WeightedSum(m) + Len(m) + Len(k))
                      % NumBuckets) + 1 : k \in {key}, m \in {msg} } : TRUE

HASH_LEN == 32

\* default of the max_attempts parameter of ensure_valid_secp256k1_key, which
\* derive_nillion_keypair relies on (1000 in the source; the model runs the
\* same loop with a default small enough to enumerate)
DefaultMaxAttempts == 2

(* -------------------------------- state -------------------------------- *)

Procs == {"t1", "t2"}

MainProc == "t1"

VARIABLES
    hmacTable,           \* HMAC-SHA256: the digest of each class of inputs
    hdwallet_features,   \* Account's class-level HD-wallet feature flag, which
                         \* calls made before the ones observed may have set
    pc,                  \* position of each thread
    frame,               \* arguments, locals and result of each thread's call
    current_key_index,   \* SyntheticCohortGenerator.current_key_index
    generate_calls       \* the calls of generate_patient_id made on the
                         \* generator, in call order

\* the state of the SyntheticCohortGenerator
generator == <<current_key_index, generate_calls>>

vars == <<hmacTable, hdwallet_features, pc, frame, current_key_index, generate_calls>>

\* hmac.new(key, msg, hashlib.sha256).digest()
Hmac(key, msg) == hmacTable[Bucket(key, msg)]

\* expand phase of hkdf: rounds i..n, t the previous block, output so far
RECURSIVE HkdfExpand(_, _, _, _, _, _)
HkdfExpand(prk, info, t, i, n, output) ==
    IF i > n THEN output
    ELSE LET t_i == Hmac(prk, t \o info \o <<i>>)
         IN  HkdfExpand(prk, info, t_i, i + 1, n, output \o t_i)

\* the output is not cut to output_length: whole blocks are returned
hkdf_untruncated(input_key_material, context_information, salt, output_length) ==
    LET pseudo_random_key == Hmac(salt, input_key_material)
        n == (output_length + HASH_LEN - 1) \div HASH_LEN
    IN  HkdfExpand(pseudo_random_key, context_information, <<>>, 1, n, <<>>)

\* hkdf(input_key_material, context_information, salt, output_length)
hkdf(input_key_material, context_information, salt, output_length) ==
    LET pseudo_random_key == Hmac(salt, input_key_material)
        n == (output_length + HASH_LEN - 1) \div HASH_LEN
        output == HkdfExpand(pseudo_random_key, context_information, <<>>, 1, n, <<>>)
    IN  SubSeq(output, 1, output_length)

NoMessage == [key_id |-> <<>>, context |-> <<>>]

\* DerivedNillionKeypair
Keypair(did, private_key, public_key_compressed, public_key_uncompressed, ethereum_address, auth_message, eip712_signature) ==
    [ did                     |-> did,
      private_key             |-> private_key,
      public_key_compressed   |-> public_key_compressed,
      public_key_uncompressed |-> public_key_uncompressed,
      ethereum_address        |-> ethereum_address,
      auth_message            |-> auth_message,
      eip712_signature        |-> eip712_signature ]

NoKeypair == Keypair(<<>>, <<>>, <<>>, <<>>, "", NoMessage, <<>>)

NoOrigin == [key |-> <<>>, secret |-> <<>>, tampered |-> "none"]

\* one hkdf call: its arguments and its output
HkdfCall(ikm, info, salt, len, out) ==
    [ikm |-> ikm, info |-> info, salt |-> salt, len |-> len, out |-> out]

NoHkdfCall == HkdfCall(<<>>, <<>>, <<>>, 0, <<>>)

\* the key material that generate_patient_id returns and that is saved as
\* <pubkey>.key.json
KeyMaterial(did, key_index, derivation_path, ethereum_address, ethereum_private_key, nillion_private_key, nillion_public_key_compressed, nillion_public_key_uncompressed, eip712_signature, auth_message) ==
    [ did                             |-> did,
      key_index                       |-> key_index,
      derivation_path                 |-> derivation_path,
      ethereum_address                |-> ethereum_address,
      ethereum_private_key            |-> ethereum_private_key,
      nillion_private_key             |-> nillion_private_key,
      nillion_public_key_compressed   |-> nillion_public_key_compressed,
      nillion_public_key_uncompressed |-> nillion_public_key_uncompressed,
      eip712_signature                |-> eip712_signature,
      auth_message                    |-> auth_message ]

NoKeyMaterial == KeyMaterial(<<>>, 0, <<>>, "", <<>>, <<>>, <<>>, <<>>, <<>>, NoMessage)

\* what verify_did_key finds at key_path: no file, a file that is not JSON, a
\* JSON value that is not an object, or a JSON object, which has the keys of
\* content but for those in missing
KeyFile(kind, change, content, missing) ==
    [kind |-> kind, change |-> change, content |-> content, missing |-> missing]

NoKeyFile == KeyFile("absent", "none", NoKeyMaterial, {})

BlankFrame ==
    [ op                   |-> "none",
      \* arguments of derive_nillion_keypair
      ethereum_private_key |-> <<>>,
      auth_message         |-> NoMessage,
      user_secret          |-> <<>>,
      \* arguments of verify_derived_keypair
      keypair              |-> NoKeypair,
      origin               |-> NoOrigin,
      \* locals of derive_nillion_keypair
      binding_signature    |-> <<>>,
      derivation_data      |-> <<>>,
      derived_key_material |-> <<>>,
      private_key          |-> <<>>,
      \* arguments and locals of ensure_valid_secp256k1_key
      key_material         |-> <<>>,
      ensure_data          |-> <<>>,
      max_attempts         |-> 0,
      candidate            |-> <<>>,
      counter              |-> 0,
      \* whether a direct call of hkdf passed a salt
      salt_given           |-> FALSE,
      \* generate_patient_id: its local key_index and the number of the call;
      \* verify_did_key: its argument, the key file it loads, and whether the
      \* call is inside the try block
      key_index            |-> 0,
      call_no              |-> 0,
      did                  |-> <<>>,
      key_file             |-> NoKeyFile,
      in_try               |-> FALSE,
      ret_key_material     |-> NoKeyMaterial,
      \* results
      ret_keypair          |-> NoKeypair,
      ret_bytes            |-> <<>>,
      ret_bool             |-> FALSE,
      error                |-> "",
      \* observations: the hkdf call of derive_nillion_keypair, the range checks
      \* made by the loop, the candidate of the latest one, and the hkdf calls
      \* of the loop in order
      kdf_call             |-> NoHkdfCall,
      checks               |-> 0,
      last_checked         |-> <<>>,
      retry_calls          |-> <<>> ]

Init ==
    /\ hmacTable \in [1..NumBuckets -> Digests]
    /\ hdwallet_features \in BOOLEAN
    /\ pc = [p \in Procs |-> "idle"]
    /\ frame = [p \in Procs |-> BlankFrame]
    /\ current_key_index = 0
    /\ generate_calls = <<>>

\* a thread makes its call when it has none behind it
CanCall(p) == pc[p] = "idle"

(* ------------------------------- calls --------------------------------- *)

\* the application secrets a thread passes: the first thread passes either
\* secret, any other thread leaves the parameter at its default
UserSecretsOf(p) == IF p = MainProc THEN UserSecrets ELSE {Str_user_secret}

\* a thread calls derive_nillion_keypair(ethereum_private_key, auth_message, user_secret)
CallDerive(p) ==
    /\ CanCall(p)
    /\ \E k \in SourceKeys, m \in AuthMessages, s \in UserSecretsOf(p) :
         frame' = [frame EXCEPT ![p] =
                     [BlankFrame EXCEPT !.op = "derive",
                                        !.ethereum_private_key = k,
                                        !.auth_message = m,
                                        !.user_secret = s]]
    /\ pc' = [pc EXCEPT ![p] = "sign"]
    /\ UNCHANGED <<hmacTable, hdwallet_features, generator>>

\* the keypairs a caller may hand to the verifier: a derived keypair as it was
\* returned, or with one stored field replaced by another value of its type
Tampered(kp) ==
    {[field |-> "none", kp |-> kp]}
    \cup {[field |-> "private_key", kp |-> [kp EXCEPT !.private_key = x]] :
            x \in {Zero32, One32, OrderMinus1} \ {kp.private_key}}
    \cup {[field |-> "public_key_uncompressed",
           kp |-> [kp EXCEPT !.public_key_uncompressed = x]] :
            x \in {PubG, PubNegG} \ {kp.public_key_uncompressed}}
    \cup {[field |-> "public_key_compressed",
           kp |-> [kp EXCEPT !.public_key_compressed = x]] :
            x \in {<<2>> \o SubSeq(PubG, 1, 32), <<3>> \o SubSeq(PubG, 1, 32)}
                  \ {kp.public_key_compressed}}
    \cup {[field |-> "did", kp |-> [kp EXCEPT !.did = x]] :
            x \in {SubSeq(kp.did, 1, Len(kp.did) - 1) \o <<48>>} \ {kp.did}}
    \cup {[field |-> "eip712_signature", kp |-> [kp EXCEPT !.eip712_signature = x]] :
            x \in {SigA, SigB} \ {kp.eip712_signature}}
    \cup {[field |-> "malformed",
           kp |-> [kp EXCEPT !.private_key = SubSeq(kp.private_key, 1, 31)]],
          [field |-> "malformed",
           kp |-> [kp EXCEPT !.public_key_compressed =
                                 SubSeq(kp.public_key_compressed, 1, 32)]]}

\* default of the user_secret parameter of derive_nillion_keypair
DEFAULT_USER_SECRET == Str_user_secret

\* a thread calls verify_derived_keypair(keypair, ethereum_private_key) on a
\* keypair that a call of derive_nillion_keypair returned; the verifier
\* starts by calling derive_nillion_keypair without a user_secret
CallVerify(p) ==
    /\ \E q \in Procs :
         /\ q = p \/ CanCall(p)
         /\ pc[q] = "returned"
         /\ frame[q].op = "derive"
         /\ \E t \in Tampered(frame[q].ret_keypair), k \in SourceKeys :
              frame' = [frame EXCEPT ![p] =
                  [BlankFrame EXCEPT
                      !.op = "verify",
                      !.keypair = t.kp,
                      !.origin = [key      |-> frame[q].ethereum_private_key,
                                  secret   |-> frame[q].user_secret,
                                  tampered |-> t.field],
                      !.ethereum_private_key = k,
                      !.auth_message = t.kp.auth_message,
                      !.user_secret = DEFAULT_USER_SECRET]]
    /\ pc' = [pc EXCEPT ![p] = "sign"]
    /\ UNCHANGED <<hmacTable, hdwallet_features, generator>>

\* a thread calls hkdf(input_key_material, context_information, output_length=n),
\* with a salt or without one; the function has no step that another call
\* could observe
CallHkdf(p) ==
    /\ CanCall(p)
    /\ \E ikm \in HkdfInputs, info \in HkdfInfos, s \in HkdfSalts, n \in OutputLengths :
         LET salt == IF s.given THEN s.value ELSE COMMON_KDF_SALT
             out == hkdf(ikm, info, salt, n)
         IN  frame' = [frame EXCEPT ![p] =
                 [BlankFrame EXCEPT !.op = "hkdf",
                                    !.salt_given = s.given,
                                    !.kdf_call = HkdfCall(ikm, info, salt, n, out),
                                    !.ret_bytes = out]]
    /\ pc' = [pc EXCEPT ![p] = "returned"]
    /\ UNCHANGED <<hmacTable, hdwallet_features, generator>>

\* a thread calls ensure_valid_secp256k1_key(key_material, derivation_data, max_attempts)
CallEnsure(p) ==
    /\ CanCall(p)
    /\ \E c \in Candidates, m \in AuthMessages, a \in (-1)..MaxAttempts :
         frame' = [frame EXCEPT ![p] =
                     [BlankFrame EXCEPT !.op = "ensure",
                                        !.key_material = c,
                                        !.ensure_data = Utf8Encode(json_dumps(to_dict(m))),
                                        !.max_attempts = a,
                                        !.candidate = c,
                                        !.counter = 0]]
    /\ pc' = [pc EXCEPT ![p] = "loop"]
    /\ UNCHANGED <<hmacTable, hdwallet_features, generator>>

(* ------------------------- sign_eip712_message ------------------------- *)

\* the signer keeps the signatures it made by key alone: a call whose source
\* key has signed before, for whatever auth message, gets that signature
Sign_cached_by_key(p) ==
    /\ pc[p] = "sign"
    /\ hdwallet_features' = TRUE
    /\ LET f == frame[p]
           typed_data == create_eip712_typed_data(f.auth_message)
           signed == {q \in Procs \ {p} :
                        /\ frame[q].binding_signature # <<>>
                        /\ frame[q].ethereum_private_key = f.ethereum_private_key}
       IN  IF ~ValidSourceKey(f.ethereum_private_key)
           THEN /\ frame' = [frame EXCEPT ![p].error = "ValidationError"]
                /\ pc' = [pc EXCEPT ![p] = "raised"]
           ELSE /\ frame' = [frame EXCEPT ![p].binding_signature =
                                IF signed # {}
                                THEN frame[CHOOSE q \in signed : TRUE].binding_signature
                                ELSE SignatureOf(f.ethereum_private_key, typed_data)]
                /\ pc' = [pc EXCEPT ![p] = "kdf"]
    /\ UNCHANGED <<hmacTable, generator>>

\* the signer does not look at the key: a key that is no scalar of the curve
\* gets a signature like any other
Sign_unchecked(p) ==
    /\ pc[p] = "sign"
    /\ hdwallet_features' = TRUE
    /\ LET f == frame[p]
           typed_data == create_eip712_typed_data(f.auth_message)
       IN  /\ frame' = [frame EXCEPT ![p].binding_signature =
                            IF ValidSourceKey(f.ethereum_private_key)
                            THEN SignatureOf(f.ethereum_private_key, typed_data)
                            ELSE SigC]
           /\ pc' = [pc EXCEPT ![p] = "kdf"]
    /\ UNCHANGED <<hmacTable, generator>>

\* the signer takes its nonce from state that the calls share: the first
\* signature after start-up differs from the later ones
Sign_shared_nonce(p) ==
    /\ pc[p] = "sign"
    /\ hdwallet_features' = TRUE
    /\ LET f == frame[p]
           typed_data == create_eip712_typed_data(f.auth_message)
       IN  IF ~ValidSourceKey(f.ethereum_private_key)
           THEN /\ frame' = [frame EXCEPT ![p].error = "ValidationError"]
                /\ pc' = [pc EXCEPT ![p] = "raised"]
           ELSE /\ frame' = [frame EXCEPT ![p].binding_signature =
                                IF hdwallet_features
                                THEN SignatureOf(f.ethereum_private_key, typed_data)
                                ELSE SigC]
                /\ pc' = [pc EXCEPT ![p] = "kdf"]
    /\ UNCHANGED <<hmacTable, generator>>

Sign(p) ==
    /\ pc[p] = "sign"
    /\ hdwallet_features' = TRUE
    /\ LET f == frame[p]
           typed_data == create_eip712_typed_data(f.auth_message)
       IN  IF ~ValidSourceKey(f.ethereum_private_key)
           THEN /\ frame' = [frame EXCEPT ![p].error = "ValidationError"]
                /\ pc' = [pc EXCEPT ![p] = "raised"]
           ELSE /\ frame' = [frame EXCEPT ![p].binding_signature =
                                SignatureOf(f.ethereum_private_key, typed_data)]
                /\ pc' = [pc EXCEPT ![p] = "kdf"]
    /\ UNCHANGED <<hmacTable, generator>>

(* ----------------- derive_nillion_keypair, steps 2 to 5 ---------------- *)

\* the signature is put before the secret
InputKeyMaterial_swapped(user_secret_bytes, binding_signature) ==
    binding_signature \o user_secret_bytes

\* step 3: user_secret_bytes + binding_signature
InputKeyMaterial(user_secret_bytes, binding_signature) ==
    user_secret_bytes \o binding_signature

\* the secret is kept in a place that the calls share: a call uses the secret
\* of the call that came in last
Kdf_shared_secret(p) ==
    /\ pc[p] = "kdf"
    /\ LET f == frame[p]
           others == {q \in Procs \ {p} : frame[q].op = "derive"}
           user_secret == IF others = {} THEN f.user_secret
                          ELSE frame[CHOOSE q \in others : TRUE].user_secret
           derivation_data == Utf8Encode(json_dumps(to_dict(f.auth_message)))
           user_secret_bytes == Utf8Encode(user_secret)
           input_key_material == InputKeyMaterial(user_secret_bytes, f.binding_signature)
           derived_key_material == hkdf(input_key_material, derivation_data,
                                        COMMON_KDF_SALT, 32)
       IN  frame' = [frame EXCEPT ![p] =
               [f EXCEPT !.derivation_data = derivation_data,
                         !.derived_key_material = derived_key_material,
                         !.kdf_call = HkdfCall(input_key_material, derivation_data,
                                               COMMON_KDF_SALT, 32,
                                               derived_key_material),
                         !.key_material = derived_key_material,
                         !.ensure_data = derivation_data,
                         !.max_attempts = DefaultMaxAttempts,
                         !.candidate = derived_key_material,
                         !.counter = 0]]
    /\ pc' = [pc EXCEPT ![p] = "loop"]
    /\ UNCHANGED <<hmacTable, hdwallet_features, generator>>

Kdf(p) ==
    /\ pc[p] = "kdf"
    /\ LET f == frame[p]
           derivation_data == Utf8Encode(json_dumps(to_dict(f.auth_message)))
           user_secret_bytes == Utf8Encode(f.user_secret)
           input_key_material == InputKeyMaterial(user_secret_bytes, f.binding_signature)
           derived_key_material == hkdf(input_key_material, derivation_data,
                                        COMMON_KDF_SALT, 32)
       IN  frame' = [frame EXCEPT ![p] =
               [f EXCEPT !.derivation_data = derivation_data,
                         !.derived_key_material = derived_key_material,
                         !.kdf_call = HkdfCall(input_key_material, derivation_data,
                                               COMMON_KDF_SALT, 32,
                                               derived_key_material),
                         !.key_material = derived_key_material,
                         !.ensure_data = derivation_data,
                         !.max_attempts = DefaultMaxAttempts,
                         !.candidate = derived_key_material,
                         !.counter = 0]]
    /\ pc' = [pc EXCEPT ![p] = "loop"]
    /\ UNCHANGED <<hmacTable, hdwallet_features, generator>>

(* --------------------- ensure_valid_secp256k1_key ---------------------- *)

\* the loop stops one iteration early: while counter < max_attempts - 1
LoopCondition_short(counter, max_attempts) == counter < max_attempts - 1

\* the loop runs one iteration more: while counter <= max_attempts
LoopCondition_long(counter, max_attempts) == counter <= max_attempts

\* the first iteration runs before the bound is looked at, as in a do-while loop
LoopCondition_do_while(counter, max_attempts) == counter = 0 \/ counter < max_attempts

\* while counter < max_attempts
LoopCondition(counter, max_attempts) == counter < max_attempts

\* every re-derivation starts from the initial key material
RetryIkm_unchained(f, counter) == f.key_material \o to_bytes(counter, COUNTER_BYTES)

\* the counter bytes are made before the counter is incremented
RetryIkm_stale_counter(f, counter) == f.candidate \o to_bytes(counter - 1, COUNTER_BYTES)

\* input key material of a re-derivation: candidate + counter_bytes
RetryIkm(f, counter) == f.candidate \o to_bytes(counter, COUNTER_BYTES)

\* exhaustion is swallowed: the call goes on with the scalar 1 in place of the
\* key it could not derive
EnsureExhausted_substitute(p) ==
    /\ pc[p] = "loop"
    /\ ~LoopCondition(frame[p].counter, frame[p].max_attempts)
    /\ IF frame[p].op = "ensure"
       THEN /\ frame' = [frame EXCEPT ![p].ret_bytes = One32]
            /\ pc' = [pc EXCEPT ![p] = "returned"]
       ELSE /\ frame' = [frame EXCEPT ![p].private_key = One32]
            /\ pc' = [pc EXCEPT ![p] = "materialize"]
    /\ UNCHANGED <<hmacTable, hdwallet_features, generator>>

\* exhaustion is noticed only once the counter has passed max_attempts: a call
\* whose counter equals max_attempts neither iterates nor raises
EnsureExhausted_late(p) ==
    /\ pc[p] = "loop"
    /\ frame[p].counter > frame[p].max_attempts
    /\ frame' = [frame EXCEPT ![p].error = "ValueError"]
    /\ pc' = [pc EXCEPT ![p] = "raised"]
    /\ UNCHANGED <<hmacTable, hdwallet_features, generator>>

\* the loop condition fails: raise ValueError
EnsureExhausted(p) ==
    /\ pc[p] = "loop"
    /\ ~LoopCondition(frame[p].counter, frame[p].max_attempts)
    /\ frame' = [frame EXCEPT ![p].error = "ValueError"]
    /\ pc' = [pc EXCEPT ![p] = "raised"]
    /\ UNCHANGED <<hmacTable, hdwallet_features, generator>>

\* an iteration that finds the candidate in range: return candidate
EnsureReturn(p) ==
    /\ pc[p] = "loop"
    /\ LoopCondition(frame[p].counter, frame[p].max_attempts)
    /\ InRange(bytes_to_int(frame[p].candidate))
    /\ IF frame[p].op = "ensure"
       THEN /\ frame' = [frame EXCEPT ![p].checks = @ + 1,
                                      ![p].last_checked = frame[p].candidate,
                                      ![p].ret_bytes = frame[p].candidate]
            /\ pc' = [pc EXCEPT ![p] = "returned"]
       ELSE /\ frame' = [frame EXCEPT ![p].checks = @ + 1,
                                      ![p].last_checked = frame[p].candidate,
                                      ![p].private_key = frame[p].candidate]
            /\ pc' = [pc EXCEPT ![p] = "materialize"]
    /\ UNCHANGED <<hmacTable, hdwallet_features, generator>>

\* an iteration that finds the candidate out of range: derive the next one
EnsureRetry(p) ==
    /\ pc[p] = "loop"
    /\ LoopCondition(frame[p].counter, frame[p].max_attempts)
    /\ ~InRange(bytes_to_int(frame[p].candidate))
    /\ LET f == frame[p]
           counter == f.counter + 1
       IN  IF ToBytesOverflows(counter, COUNTER_BYTES)
           THEN /\ frame' = [frame EXCEPT ![p].checks = @ + 1,
                                          ![p].last_checked = f.candidate,
                                          ![p].counter = counter,
                                          ![p].error = "OverflowError"]
                /\ pc' = [pc EXCEPT ![p] = "raised"]
           ELSE LET ikm == RetryIkm(f, counter)
                    candidate == hkdf(ikm, SECP256K1_RETRY, f.ensure_data, 32)
                IN  /\ frame' = [frame EXCEPT ![p] =
                          [f EXCEPT !.checks = @ + 1,
                                    !.last_checked = f.candidate,
                                    !.counter = counter,
                                    !.candidate = candidate,
                                    !.retry_calls = Append(@,
                                        HkdfCall(ikm, SECP256K1_RETRY,
                                                 f.ensure_data, 32, candidate))]]
                    /\ UNCHANGED pc
    /\ UNCHANGED <<hmacTable, hdwallet_features, generator>>

(* ---------------- derive_nillion_keypair, step 6 to return ------------- *)

DID_PREFIX == <<100, 105, 100, 58, 110, 105, 108, 58>>

\* the prefix is taken from the parity of the x-coordinate
CompressPublicKey_x_parity(public_key_uncompressed) ==
    LET x_coord == SubSeq(public_key_uncompressed, 1, 32)
        y_is_odd == x_coord[Len(x_coord)] % 2
        prefix == IF y_is_odd # 0 THEN <<3>> ELSE <<2>>
    IN  prefix \o x_coord

\* the compressed public key: prefix + x-coordinate
CompressPublicKey(public_key_uncompressed) ==
    LET x_coord == SubSeq(public_key_uncompressed, 1, 32)
        y_coord == SubSeq(public_key_uncompressed, 33, Len(public_key_uncompressed))
        y_is_odd == y_coord[Len(y_coord)] % 2
        prefix == IF y_is_odd # 0 THEN <<3>> ELSE <<2>>
    IN  prefix \o x_coord

\* the DID is built from the x-coordinate alone, without the prefix byte
DidOf_no_prefix_byte(public_key_compressed) ==
    DID_PREFIX \o Hex(Tail(public_key_compressed))

\* f"did:nil:{public_key_compressed.hex()}"
DidOf(public_key_compressed) == DID_PREFIX \o Hex(public_key_compressed)

\* where the caller of derive_nillion_keypair goes on when it has returned
AfterDerive(op) ==
    CASE op = "verify" -> "compare"
      [] op = "generate" -> "key_material"
      [] op = "verify_did" -> "compare_stored"
      [] OTHER -> "returned"

\* the keypair carries the candidate the loop started from, not the scalar it
\* returned
Materialize_initial_candidate(p) ==
    /\ pc[p] = "materialize"
    /\ hdwallet_features' = TRUE
    /\ LET f == frame[p]
           public_key_uncompressed == VerifyingKeyOf(f.private_key)
           public_key_compressed == CompressPublicKey(public_key_uncompressed)
           did == DidOf(public_key_compressed)
           kp == Keypair(did, f.key_material, public_key_compressed,
                         public_key_uncompressed,
                         AddressOf(f.ethereum_private_key), f.auth_message,
                         f.binding_signature)
       IN  /\ frame' = [frame EXCEPT ![p].ret_keypair = kp]
           /\ pc' = [pc EXCEPT ![p] = AfterDerive(f.op)]
    /\ UNCHANGED <<hmacTable, generator>>

\* derive_nillion_keypair, steps 6 and after: the key pair, the DID, the
\* address and the result
Materialize(p) ==
    /\ pc[p] = "materialize"
    /\ hdwallet_features' = TRUE
    /\ LET f == frame[p]
           public_key_uncompressed == VerifyingKeyOf(f.private_key)
           public_key_compressed == CompressPublicKey(public_key_uncompressed)
           did == DidOf(public_key_compressed)
           kp == Keypair(did, f.private_key, public_key_compressed,
                         public_key_uncompressed,
                         AddressOf(f.ethereum_private_key), f.auth_message,
                         f.binding_signature)
       IN  /\ frame' = [frame EXCEPT ![p].ret_keypair = kp]
           /\ pc' = [pc EXCEPT ![p] = AfterDerive(f.op)]
    /\ UNCHANGED <<hmacTable, generator>>

(* ------------------------ verify_derived_keypair ----------------------- *)

\* the comparison leaves the private key out
Compare_no_private_key(p) ==
    /\ pc[p] = "compare"
    /\ LET re_derived == frame[p].ret_keypair
           keypair == frame[p].keypair
       IN  frame' = [frame EXCEPT ![p].ret_bool =
               /\ re_derived.did = keypair.did
               /\ re_derived.public_key_compressed = keypair.public_key_compressed
               /\ re_derived.eip712_signature = keypair.eip712_signature]
    /\ pc' = [pc EXCEPT ![p] = "returned"]
    /\ UNCHANGED <<hmacTable, hdwallet_features, generator>>

\* the comparison repairs the keypair it was given: it stores the re-derived
\* uncompressed public key in it
Compare_repairing(p) ==
    /\ pc[p] = "compare"
    /\ LET re_derived == frame[p].ret_keypair
           keypair == frame[p].keypair
       IN  frame' = [frame EXCEPT
               ![p].keypair.public_key_uncompressed = re_derived.public_key_uncompressed,
               ![p].ret_bool =
                   /\ re_derived.did = keypair.did
                   /\ re_derived.private_key = keypair.private_key
                   /\ re_derived.public_key_compressed = keypair.public_key_compressed
                   /\ re_derived.eip712_signature = keypair.eip712_signature]
    /\ pc' = [pc EXCEPT ![p] = "returned"]
    /\ UNCHANGED <<hmacTable, hdwallet_features, generator>>

Compare(p) ==
    /\ pc[p] = "compare"
    /\ LET re_derived == frame[p].ret_keypair
           keypair == frame[p].keypair
       IN  frame' = [frame EXCEPT ![p].ret_bool =
               /\ re_derived.did = keypair.did
               /\ re_derived.private_key = keypair.private_key
               /\ re_derived.public_key_compressed = keypair.public_key_compressed
               /\ re_derived.eip712_signature = keypair.eip712_signature]
    /\ pc' = [pc EXCEPT ![p] = "returned"]
    /\ UNCHANGED <<hmacTable, hdwallet_features, generator>>

(* ---------------------------- specifications --------------------------- *)

\* the steps of a running call
Step(p) ==
    \/ Sign(p)
    \/ Kdf(p)
    \/ EnsureExhausted(p)
    \/ EnsureReturn(p)
    \/ EnsureRetry(p)
    \/ Materialize(p)
    \/ Compare(p)

\* one client calling the three functions, one call after the other
Next ==
    \/ CallDerive(MainProc)
    \/ CallVerify(MainProc)
    \/ CallEnsure(MainProc)
    \/ CallHkdf(MainProc)
    \/ Step(MainProc)

Spec == Init /\ [][Next]_vars

\* a call that has started keeps running
FairSpec == Spec /\ WF_vars(Step(MainProc))

\* the steps of a running call of derive_nillion_keypair
DeriveStep(p) ==
    \/ Sign(p)
    \/ Kdf(p)
    \/ EnsureExhausted(p)
    \/ EnsureReturn(p)
    \/ EnsureRetry(p)
    \/ Materialize(p)

\* threads calling derive_nillion_keypair concurrently
ConcurrentNext == \E p \in Procs : CallDerive(p) \/ DeriveStep(p)

ConcurrentSpec == Init /\ [][ConcurrentNext]_vars

(* ------------- ensure_valid_secp256k1_key with large counters ---------- *)

\* Python integers have no width: in the calls below counter and max_attempts
\* are held as big-endian digit sequences without leading zeros, the form
\* bytes_to_int gives, so that values of 2^32 and more can be written.

\* n + 1
RECURSIVE IntSucc(_)
IntSucc(n) ==
    IF n = <<>> THEN <<1>>
    ELSE IF n[Len(n)] < 255 THEN [n EXCEPT ![Len(n)] = @ + 1]
    ELSE IntSucc(SubSeq(n, 1, Len(n) - 1)) \o <<0>>

\* n.to_bytes(len, byteorder='big') raises OverflowError: n has more digits
IntToBytesOverflows(n, len) == Len(n) > len

\* n.to_bytes(len, byteorder='big')
int_to_bytes(n, len) == [i \in 1..(len - Len(n)) |-> 0] \o n

\* 2^32 - 2, 2^32 - 1, 2^32 and 2^32 + 1
UInt32MaxMinus1 == <<255, 255, 255, 254>>
UInt32Max == <<255, 255, 255, 255>>
UInt32MaxPlus1 == <<1, 0, 0, 0, 0>>
UInt32MaxPlus2 == <<1, 0, 0, 0, 1>>

\* values of max_attempts
LargeMaxAttempts ==
    {IntZero, bytes_to_int(to_bytes(MaxAttempts, COUNTER_BYTES)),
     UInt32Max, UInt32MaxPlus1, UInt32MaxPlus2}

\* a thread calls ensure_valid_secp256k1_key(key_material, derivation_data,
\* max_attempts): candidate = key_material, counter = 0
CallEnsureLarge(p) ==
    /\ CanCall(p)
    /\ \E c \in Candidates, m \in AuthMessages, a \in LargeMaxAttempts :
         frame' = [frame EXCEPT ![p] =
                     [BlankFrame EXCEPT !.op = "ensure",
                                        !.key_material = c,
                                        !.ensure_data = Utf8Encode(json_dumps(to_dict(m))),
                                        !.max_attempts = a,
                                        !.candidate = c,
                                        !.counter = IntZero]]
    /\ pc' = [pc EXCEPT ![p] = "loop"]
    /\ UNCHANGED <<hmacTable, hdwallet_features, generator>>

\* while counter < max_attempts
LargeLoopCondition(counter, max_attempts) == IntLess(counter, max_attempts)

\* the loop condition fails: raise ValueError
LargeExhausted(p) ==
    /\ pc[p] = "loop"
    /\ ~LargeLoopCondition(frame[p].counter, frame[p].max_attempts)
    /\ frame' = [frame EXCEPT ![p].error = "ValueError"]
    /\ pc' = [pc EXCEPT ![p] = "raised"]
    /\ UNCHANGED <<hmacTable, hdwallet_features, generator>>

\* an iteration that finds the candidate in range: return candidate
LargeReturn(p) ==
    /\ pc[p] = "loop"
    /\ LargeLoopCondition(frame[p].counter, frame[p].max_attempts)
    /\ InRange(bytes_to_int(frame[p].candidate))
    /\ frame' = [frame EXCEPT ![p].last_checked = frame[p].candidate,
                              ![p].ret_bytes = frame[p].candidate]
    /\ pc' = [pc EXCEPT ![p] = "returned"]
    /\ UNCHANGED <<hmacTable, hdwallet_features, generator>>

\* the iterations that are followed one by one: the first MaxAttempts of a
\* call and those from counter = 2^32 - 2 on
FollowedSingly(counter) ==
    \/ IntLess(counter, bytes_to_int(to_bytes(MaxAttempts, COUNTER_BYTES)))
    \/ ~IntLess(counter, UInt32MaxMinus1)

\* an iteration that finds the candidate out of range: counter += 1, then
\* counter.to_bytes(4) raises OverflowError or the next candidate is derived
LargeRetry(p) ==
    /\ pc[p] = "loop"
    /\ LargeLoopCondition(frame[p].counter, frame[p].max_attempts)
    /\ ~InRange(bytes_to_int(frame[p].candidate))
    /\ FollowedSingly(frame[p].counter)
    /\ LET f == frame[p]
           counter == IntSucc(f.counter)
       IN  IF IntToBytesOverflows(counter, COUNTER_BYTES)
           THEN /\ frame' = [frame EXCEPT ![p].last_checked = f.candidate,
                                          ![p].counter = counter,
                                          ![p].error = "OverflowError"]
                /\ pc' = [pc EXCEPT ![p] = "raised"]
           ELSE LET ikm == f.candidate \o int_to_bytes(counter, COUNTER_BYTES)
                    candidate == hkdf(ikm, SECP256K1_RETRY, f.ensure_data, 32)
                IN  /\ frame' = [frame EXCEPT ![p].last_checked = f.candidate,
                                              ![p].counter = counter,
                                              ![p].candidate = candidate]
                    /\ UNCHANGED pc
    /\ UNCHANGED <<hmacTable, hdwallet_features, generator>>

\* every HMAC value is the candidate at hand, so every re-derivation of it,
\* whatever the counter bytes, gives this candidate again
CandidateIsFixed(f) == \A b \in 1..NumBuckets : hmacTable[b] = f.candidate

\* a run of iterations taken at once: while the candidate is out of range and
\* every re-derivation gives it again, the iterations up to counter = 2^32 - 2
\* change the counter alone, none of them reaches the loop bound and every
\* counter among them fits in 4 bytes
LargeRetryRun(p) ==
    /\ pc[p] = "loop"
    /\ LargeLoopCondition(frame[p].counter, frame[p].max_attempts)
    /\ ~InRange(bytes_to_int(frame[p].candidate))
    /\ CandidateIsFixed(frame[p])
    /\ IntLess(frame[p].counter, UInt32MaxMinus1)
    /\ ~IntLess(frame[p].max_attempts, UInt32MaxMinus1)
    /\ frame' = [frame EXCEPT ![p].last_checked = frame[p].candidate,
                              ![p].counter = UInt32MaxMinus1]
    /\ UNCHANGED <<pc, hmacTable, hdwallet_features, generator>>

\* one client calling ensure_valid_secp256k1_key with small and large values
\* of max_attempts
LargeNext ==
    \/ CallEnsureLarge(MainProc)
    \/ LargeExhausted(MainProc)
    \/ LargeReturn(MainProc)
    \/ LargeRetry(MainProc)
    \/ LargeRetryRun(MainProc)

LargeSpec == Init /\ [][LargeNext]_vars

(* ----------------------------- synth_cohort ---------------------------- *)

\* cohort_size: the number of patients that generate_cohort asks for
MaxPatients == 3

\* "m/44'/60'/0'/0/"
PathPrefix == <<109, 47, 52, 52, 39, 47, 54, 48, 39, 47, 48, 39, 47, 48, 47>>

\* str(n) for n >= 0
RECURSIVE Decimal(_)
Decimal(n) == IF n < 10 THEN <<48 + n>> ELSE Decimal(n \div 10) \o <<48 + (n % 10)>>

\* account_path=f"m/44'/60'/0'/0/{index}"
DerivationPath(index) == PathPrefix \o Decimal(index)

\* "derivation_path": f"m/44'/60'/0'/0/{key_index}"
StoredDerivationPath(key_index) == PathPrefix \o Decimal(key_index)

\* eth_account: Account.from_mnemonic(hd_mnemonic, account_path=path).key
AccountFromMnemonic(account_path) ==
    CASE account_path = PathPrefix \o <<48>> -> HdKeys[1]
      [] account_path = PathPrefix \o <<49>> -> HdKeys[2]
      [] account_path = PathPrefix \o <<50>> -> HdKeys[3]
      [] account_path = PathPrefix \o <<51>> -> HdKeys[4]
      [] account_path = PathPrefix \o <<52>> -> HdKeys[5]

\* the increment is left out
NextKeyIndex_unchanged(index) == index

\* self.current_key_index += 1
NextKeyIndex(index) == index + 1

\* the thread has no call running
AtRest(p) ==
    \/ pc[p] \in {"idle", "returned"}
    \/ pc[p] = "raised" /\ ~frame[p].in_try

StorageAuthMessage == [key_id |-> Str_1, context |-> Str_nillion]

\* generate_patient_id up to its call of derive_nillion_keypair: the account
\* at current_key_index is derived, key_index takes the index and the index
\* is incremented
CallGenerate(p) ==
    /\ AtRest(p)
    /\ current_key_index < MaxPatients
    /\ LET account_path == DerivationPath(current_key_index)
           eth_private_key == AccountFromMnemonic(account_path)
           key_index == current_key_index
       IN  /\ frame' = [frame EXCEPT ![p] =
                 [BlankFrame EXCEPT !.op = "generate",
                                    !.key_index = key_index,
                                    !.call_no = Len(generate_calls) + 1,
                                    !.ethereum_private_key = eth_private_key,
                                    !.auth_message = StorageAuthMessage,
                                    !.user_secret = Str_user_secret]]
           /\ generate_calls' = Append(generate_calls,
                                       [account_path |-> account_path,
                                        index_before |-> current_key_index,
                                        key_material |-> NoKeyMaterial])
    /\ current_key_index' = NextKeyIndex(current_key_index)
    /\ hdwallet_features' = TRUE
    /\ pc' = [pc EXCEPT ![p] = "sign"]
    /\ UNCHANGED hmacTable

\* generate_patient_id after derive_nillion_keypair has returned: the key
\* material is put together and returned with the DID; it is kept in
\* generate_calls as its caller, generate_cohort, keeps it in the cohort
GenerateReturn(p) ==
    /\ pc[p] = "key_material"
    /\ LET f == frame[p]
           nillion_keypair == f.ret_keypair
           key_material ==
               KeyMaterial(nillion_keypair.did,
                           f.key_index,
                           StoredDerivationPath(f.key_index),
                           AddressOf(f.ethereum_private_key),
                           Hex(f.ethereum_private_key),
                           Hex(nillion_keypair.private_key),
                           Hex(nillion_keypair.public_key_compressed),
                           Hex(nillion_keypair.public_key_uncompressed),
                           Hex(nillion_keypair.eip712_signature),
                           f.auth_message)
       IN  /\ frame' = [frame EXCEPT ![p].ret_key_material = key_material]
           /\ generate_calls' = [generate_calls EXCEPT ![f.call_no].key_material = key_material]
    /\ pc' = [pc EXCEPT ![p] = "returned"]
    /\ UNCHANGED <<hmacTable, hdwallet_features, current_key_index>>

\* the value of a hexadecimal character, 16 for any other character
HexDigitValue(c) ==
    IF c \in 48..57 THEN c - 48
    ELSE IF c \in 97..102 THEN c - 87
    ELSE IF c \in 65..70 THEN c - 55
    ELSE 16

\* bytes.fromhex(s) for a string without whitespace; ValueError when the
\* length is odd or a character is no hexadecimal digit
FromHexRaises(s) ==
    \/ Len(s) % 2 = 1
    \/ \E i \in 1..Len(s) : HexDigitValue(s[i]) = 16

FromHex(s) ==
    [i \in 1..(Len(s) \div 2) |-> 16 * HexDigitValue(s[2 * i - 1]) + HexDigitValue(s[2 * i])]

\* the string with its last character replaced by another hexadecimal digit
OtherLastDigit(s) ==
    [s EXCEPT ![Len(s)] = IF s[Len(s)] = 48 THEN 49 ELSE 48]

\* what key_path may hold for a DID whose key material was generated: the
\* key file as saved, with one entry changed or absent, or something else
KeyFiles(km) ==
    {KeyFile("absent", "none", NoKeyMaterial, {}),
     KeyFile("not_json", "none", NoKeyMaterial, {}),
     KeyFile("not_object", "none", NoKeyMaterial, {}),
     KeyFile("object", "none", km, {}),
     KeyFile("object", "did", [km EXCEPT !.did = OtherLastDigit(km.did)], {}),
     KeyFile("object", "ethereum_private_key", km, {"ethereum_private_key"}),
     KeyFile("object", "ethereum_private_key",
             [km EXCEPT !.ethereum_private_key = <<122, 122>>], {}),
     KeyFile("object", "ethereum_private_key",
             [km EXCEPT !.ethereum_private_key = Hex(Zero32)], {}),
     KeyFile("object", "ethereum_private_key",
             [km EXCEPT !.ethereum_private_key =
                 IF km.ethereum_private_key = Hex(KeyA) THEN Hex(KeyB) ELSE Hex(KeyA)], {}),
     KeyFile("object", "nillion_private_key",
             [km EXCEPT !.nillion_private_key = OtherLastDigit(km.nillion_private_key)], {}),
     KeyFile("object", "nillion_public_key_compressed",
             [km EXCEPT !.nillion_public_key_compressed =
                 OtherLastDigit(km.nillion_public_key_compressed)], {}),
     KeyFile("object", "nillion_public_key_uncompressed",
             [km EXCEPT !.nillion_public_key_uncompressed =
                 OtherLastDigit(km.nillion_public_key_uncompressed)], {}),
     KeyFile("object", "eip712_signature",
             [km EXCEPT !.eip712_signature = OtherLastDigit(km.eip712_signature)], {}),
     KeyFile("object", "eip712_signature", km, {"eip712_signature"}),
     KeyFile("object", "ethereum_address", km, {"ethereum_address"}),
     KeyFile("object", "auth_message", km, {"auth_message"})}

\* key_material.get(key) == value
StoredIs(key_file, key, value) ==
    /\ key \notin key_file.missing
    /\ key_file.content[key] = value

\* the arguments of verify_did_key and the file at the key_path they lead to
VerifyDidInputs(km) ==
    {[did |-> km.did, key_file |-> kf] : kf \in KeyFiles(km)}
    \cup {[did |-> SubSeq(km.did, 5, Len(km.did)),
           key_file |-> KeyFile("object", "none", km, {})]}

\* did.startswith("did:nil:")
StartsWith(str, prefix) ==
    /\ Len(str) >= Len(prefix)
    /\ SubSeq(str, 1, Len(prefix)) = prefix

\* verify_did_key returns False before it calls derive_nillion_keypair
VerifyDidRejects(did, key_file) ==
    \/ ~StartsWith(did, DID_PREFIX)
    \/ key_file.kind \in {"absent", "not_json"}
    \/ /\ key_file.kind = "object"
       /\ \/ ~StoredIs(key_file, "did", did)
          \/ "ethereum_private_key" \in key_file.missing
          \/ key_file.content.ethereum_private_key = <<>>

\* verify_did_key(did) up to its call of derive_nillion_keypair: the format of
\* the DID, the key file, the stored DID and the stored Ethereum key; a JSON
\* value that is no object has no get, and bytes.fromhex may raise inside
\* the try block
CallVerifyDid(p) ==
    /\ AtRest(p)
    /\ \E i \in 1..Len(generate_calls) :
         /\ generate_calls[i].key_material # NoKeyMaterial
         /\ \E in \in VerifyDidInputs(generate_calls[i].key_material) :
              LET key_material == in.key_file.content
                  start == [BlankFrame EXCEPT !.op = "verify_did",
                                              !.did = in.did,
                                              !.key_file = in.key_file]
                  auth_msg_data == key_material.auth_message
                  auth_message == IF "auth_message" \in in.key_file.missing
                                  THEN [key_id |-> Str_1, context |-> Str_nillion]
                                  ELSE auth_msg_data
              IN  IF VerifyDidRejects(in.did, in.key_file)
                  THEN /\ frame' = [frame EXCEPT ![p] = [start EXCEPT !.ret_bool = FALSE]]
                       /\ pc' = [pc EXCEPT ![p] = "returned"]
                  ELSE IF in.key_file.kind = "not_object"
                  THEN /\ frame' = [frame EXCEPT ![p] =
                                       [start EXCEPT !.error = "AttributeError"]]
                       /\ pc' = [pc EXCEPT ![p] = "raised"]
                  ELSE IF FromHexRaises(key_material.ethereum_private_key)
                  THEN /\ frame' = [frame EXCEPT ![p] =
                                       [start EXCEPT !.in_try = TRUE,
                                                     !.error = "ValueError"]]
                       /\ pc' = [pc EXCEPT ![p] = "raised"]
                  ELSE /\ frame' = [frame EXCEPT ![p] =
                                       [start EXCEPT
                                           !.in_try = TRUE,
                                           !.ethereum_private_key =
                                               FromHex(key_material.ethereum_private_key),
                                           !.auth_message = auth_message,
                                           !.user_secret = Str_user_secret]]
                       /\ pc' = [pc EXCEPT ![p] = "sign"]
    /\ UNCHANGED <<hmacTable, hdwallet_features, generator>>

\* the comparisons of verify_did_key, each of which returns False when it
\* finds a difference
StoredMatches(key_file, re_derived, did, address) ==
    /\ StoredIs(key_file, "nillion_private_key", Hex(re_derived.private_key))
    /\ StoredIs(key_file, "nillion_public_key_compressed",
                Hex(re_derived.public_key_compressed))
    /\ re_derived.did = did
    /\ StoredIs(key_file, "ethereum_address", address)

\* verify_did_key after derive_nillion_keypair has returned: the comparisons,
\* and True when none fails
CompareStored(p) ==
    /\ pc[p] = "compare_stored"
    /\ LET f == frame[p]
       IN  frame' = [frame EXCEPT
               ![p].ret_bool = StoredMatches(f.key_file, f.ret_keypair, f.did,
                                             AddressOf(f.ethereum_private_key)),
               ![p].in_try = FALSE]
    /\ hdwallet_features' = TRUE
    /\ pc' = [pc EXCEPT ![p] = "returned"]
    /\ UNCHANGED <<hmacTable, generator>>

\* except Exception: what is raised inside the try block of verify_did_key is
\* caught and the function returns False
VerifyDidExcept(p) ==
    /\ pc[p] = "raised"
    /\ frame[p].op = "verify_did"
    /\ frame[p].in_try
    /\ frame' = [frame EXCEPT ![p].ret_bool = FALSE, ![p].in_try = FALSE]
    /\ pc' = [pc EXCEPT ![p] = "returned"]
    /\ UNCHANGED <<hmacTable, hdwallet_features, generator>>

\* one client generating patients on one generator and verifying the key
\* files of the DIDs generated
CohortNext ==
    \/ CallGenerate(MainProc)
    \/ GenerateReturn(MainProc)
    \/ CallVerifyDid(MainProc)
    \/ CompareStored(MainProc)
    \/ VerifyDidExcept(MainProc)
    \/ DeriveStep(MainProc)

CohortSpec == Init /\ [][CohortNext]_vars

(* ------------------------------ properties ----------------------------- *)

Finished(p, op) == pc[p] = "returned" /\ frame[p].op = op

SameInputs(f, g) ==
    /\ f.ethereum_private_key = g.ethereum_private_key
    /\ f.auth_message = g.auth_message
    /\ f.user_secret = g.user_secret

\* C1: two calls of derive_nillion_keypair with the same source key, auth
\* message and application secret return keypairs with equal did, private_key,
\* public_key_compressed, public_key_uncompressed and eip712_signature,
\* however the steps of the two calls are ordered.
C1_Deterministic ==
    \A p, q \in Procs :
        (Finished(p, "derive") /\ Finished(q, "derive")
           /\ SameInputs(frame[p], frame[q]))
        => /\ frame[p].ret_keypair.did = frame[q].ret_keypair.did
           /\ frame[p].ret_keypair.private_key = frame[q].ret_keypair.private_key
           /\ frame[p].ret_keypair.public_key_compressed
                = frame[q].ret_keypair.public_key_compressed
           /\ frame[p].ret_keypair.public_key_uncompressed
                = frame[q].ret_keypair.public_key_uncompressed
           /\ frame[p].ret_keypair.eip712_signature
                = frame[q].ret_keypair.eip712_signature

\* two threads have returned from calls with the same inputs, one of which
\* needed a re-derivation
C1_Witness ==
    /\ Finished("t1", "derive")
    /\ Finished("t2", "derive")
    /\ SameInputs(frame["t1"], frame["t2"])
    /\ frame["t1"].retry_calls # <<>>

\* the verifier was given the source key of the derivation that made its keypair
WithOriginalKey(f) == f.ethereum_private_key = f.origin.key

\* C2: verify_derived_keypair(derive_nillion_keypair(k, m, s), k) returns true
\* for every source key, auth message and application secret, the default
\* secret or another.
C2_VerifyAcceptsDerived ==
    \A p \in Procs :
        (Finished(p, "verify") /\ frame[p].origin.tampered = "none"
           /\ WithOriginalKey(frame[p]))
        => frame[p].ret_bool = TRUE

C4_TrueOnlyIfAllFiveEqual ==
    \A p \in Procs :
        (Finished(p, "verify") /\ frame[p].ret_bool = TRUE)
        => /\ frame[p].ret_keypair.did = frame[p].keypair.did
           /\ frame[p].ret_keypair.private_key = frame[p].keypair.private_key
           /\ frame[p].ret_keypair.public_key_compressed
                = frame[p].keypair.public_key_compressed
           /\ frame[p].ret_keypair.public_key_uncompressed
                = frame[p].keypair.public_key_uncompressed
           /\ frame[p].ret_keypair.eip712_signature
                = frame[p].keypair.eip712_signature

\* the 32 bytes b, read as a big-endian integer, lie strictly between 0 and
\* the order of the curve
IsCurveScalar(b) ==
    /\ Len(b) = 32
    /\ \E i \in 1..32 : b[i] # 0
    /\ \E i \in 1..32 :
         /\ b[i] < SECP256K1_ORDER[i]
         /\ \A j \in 1..(i - 1) : b[j] = SECP256K1_ORDER[j]

\* C5: every value ensure_valid_secp256k1_key returns, and every private_key
\* of a keypair derive_nillion_keypair returns, is a scalar strictly between 0
\* and the order of the curve.
C5_ScalarValidity ==
    \A p \in Procs :
        /\ Finished(p, "ensure") => IsCurveScalar(frame[p].ret_bytes)
        /\ Finished(p, "derive") => IsCurveScalar(frame[p].ret_keypair.private_key)
        /\ pc[p] = "materialize" => IsCurveScalar(frame[p].private_key)

\* the loop has returned a candidate that it derived itself, the initial one
\* being the order of the curve
C5_Witness ==
    /\ Finished(MainProc, "ensure")
    /\ frame[MainProc].key_material = SECP256K1_ORDER
    /\ frame[MainProc].retry_calls # <<>>
    /\ frame[MainProc].ret_bytes = OrderMinus1

\* C6: when the initial candidate is already strictly between 0 and the order
\* and max_attempts >= 1, ensure_valid_secp256k1_key returns that candidate
\* unchanged and performs no HKDF re-derivation.
C6_ValidCandidateUnchanged ==
    \A p \in Procs :
        (frame[p].op = "ensure" /\ IsCurveScalar(frame[p].key_material)
           /\ frame[p].max_attempts >= 1)
        => /\ frame[p].retry_calls = <<>>
           /\ frame[p].candidate = frame[p].key_material
           /\ pc[p] # "raised"
           /\ pc[p] = "returned" => frame[p].ret_bytes = frame[p].key_material

\* the loop has returned the valid initial candidate n - 1 with max_attempts = 1
C6_Witness ==
    /\ Finished(MainProc, "ensure")
    /\ frame[MainProc].key_material = OrderMinus1
    /\ frame[MainProc].max_attempts = 1
    /\ frame[MainProc].ret_bytes = OrderMinus1

\* every candidate of the call, the initial one and the HKDF outputs, is 0 or
\* at least the order
AllCandidatesInvalid(f) ==
    /\ ~IsCurveScalar(f.key_material)
    /\ \A i \in 1..Len(f.retry_calls) : ~IsCurveScalar(f.retry_calls[i].out)

\* C7: if every candidate is 0 or at least the order, the loop ends in the
\* exhaustion error after exactly max_attempts iterations, that is
\* max_attempts range checks and max_attempts re-derivations, never fewer and
\* never more.
C7_ExhaustionAfterMaxAttempts ==
    \A p \in Procs :
        (frame[p].op = "ensure" /\ frame[p].max_attempts >= 0
           /\ AllCandidatesInvalid(frame[p]))
        => /\ pc[p] # "returned"
           /\ frame[p].checks <= frame[p].max_attempts
           /\ Len(frame[p].retry_calls) <= frame[p].max_attempts
           /\ pc[p] = "raised"
                => /\ frame[p].error = "ValueError"
                   /\ frame[p].checks = frame[p].max_attempts
                   /\ Len(frame[p].retry_calls) = frame[p].max_attempts

\* the loop has raised after MaxAttempts iterations over invalid candidates
C7_Witness ==
    /\ pc[MainProc] = "raised"
    /\ frame[MainProc].op = "ensure"
    /\ frame[MainProc].max_attempts = MaxAttempts
    /\ AllCandidatesInvalid(frame[MainProc])
    /\ frame[MainProc].checks = MaxAttempts

\* C8: ensure_valid_secp256k1_key always terminates: a call that has entered
\* the loop, with any initial candidate, derivation context, max_attempts and
\* HMAC function, eventually returns a candidate or raises.
C8_LoopTerminates ==
    (pc[MainProc] = "loop")
        ~> (pc[MainProc] \in {"returned", "raised", "materialize"})

\* a direct call has run the loop to its bound and raised, and another one
\* with a negative max_attempts has raised at once
C8_Witness ==
    /\ pc[MainProc] = "raised"
    /\ frame[MainProc].op = "ensure"
    /\ frame[MainProc].error = "ValueError"
    /\ \/ frame[MainProc].counter = MaxAttempts
       \/ frame[MainProc].max_attempts < 0

\* the 4 big-endian bytes of a counter below 256
FourBytes(i) == <<0, 0, 0, i>>

\* C9: the i-th re-derivation of the loop computes hkdf(ikm = previous
\* candidate || i as 4 big-endian bytes, info = "SECP256K1_RETRY", salt =
\* derivation context, length 32), the previous candidate being the output of
\* re-derivation i - 1 (the initial key material for i = 1), and the counter
\* is the number of re-derivations made.
C9_RetryChain ==
    \A p \in Procs :
        LET f == frame[p]
            previous(i) == IF i = 1 THEN f.key_material ELSE f.retry_calls[i - 1].out
        IN  /\ f.counter = Len(f.retry_calls)
            /\ \A i \in 1..Len(f.retry_calls) :
                 /\ f.retry_calls[i].ikm = previous(i) \o FourBytes(i)
                 /\ f.retry_calls[i].info = SECP256K1_RETRY
                 /\ f.retry_calls[i].salt = f.ensure_data
                 /\ f.retry_calls[i].len = 32
                 /\ f.retry_calls[i].out
                      = hkdf(previous(i) \o FourBytes(i), SECP256K1_RETRY, f.ensure_data, 32)
            /\ f.retry_calls # <<>>
                 => f.candidate = f.retry_calls[Len(f.retry_calls)].out

\* the loop has made two re-derivations, the first of which gave a candidate
\* that differs from the initial one
C9_Witness ==
    /\ Len(frame[MainProc].retry_calls) = 2
    /\ frame[MainProc].retry_calls[1].out # frame[MainProc].key_material
    /\ frame[MainProc].ensure_data # <<>>

\* the canonical bytes of an auth message: the JSON object with the member
\* context before the member keyId and no whitespace
Encode(m) ==
    <<123, 34, 99, 111, 110, 116, 101, 120, 116, 34, 58>> \o JsonString(m.context)
    \o <<44, 34, 107, 101, 121, 73, 100, 34, 58>> \o JsonString(m.key_id) \o <<125>>

\* ensureValidScalar as a function: the first candidate in range among the
\* initial one and the chained re-derivations, or none within the attempts
RECURSIVE EnsureValidScalar(_, _, _, _)
EnsureValidScalar(candidate, context, done, attempts) ==
    IF done >= attempts THEN [ok |-> FALSE, scalar |-> <<>>]
    ELSE IF IsCurveScalar(candidate) THEN [ok |-> TRUE, scalar |-> candidate]
    ELSE EnsureValidScalar(
             hkdf(candidate \o FourBytes(done + 1), SECP256K1_RETRY, context, 32),
             context, done + 1, attempts)

\* the pipeline as a composition of its components
Pipeline(k, m, s) ==
    LET signature == SignatureOf(k, create_eip712_typed_data(m))
        initial == hkdf(Utf8Encode(s) \o signature, Encode(m), COMMON_KDF_SALT, 32)
    IN  [signature |-> signature,
         valid     |-> EnsureValidScalar(initial, Encode(m), 0, DefaultMaxAttempts)]

\* the public key in both encodings and the DID of a validated scalar
MaterializedFrom(scalar, kp) ==
    LET uncompressed == VerifyingKeyOf(scalar)
        compressed == <<2 + (uncompressed[64] % 2)>> \o SubSeq(uncompressed, 1, 32)
    IN  /\ kp.private_key = scalar
        /\ kp.public_key_uncompressed = uncompressed
        /\ kp.public_key_compressed = compressed
        /\ kp.did = DID_PREFIX \o Hex(compressed)

\* C10: derive_nillion_keypair is the composition materialize(
\* ensureValidScalar(hkdf(ikm = secret bytes || signature, info = encode(m),
\* salt = the default salt, length 32), context = encode(m))), the signature
\* being the one of m under the source key: it calls hkdf with exactly these
\* arguments, returns the materialized scalar of the composition, and fails
\* in the loop exactly when the composition finds no scalar.
C10_DeriveIsComposition ==
    \A p \in Procs :
        LET f == frame[p]
            c == Pipeline(f.ethereum_private_key, f.auth_message, f.user_secret)
        IN  /\ Finished(p, "derive")
                => /\ f.kdf_call = HkdfCall(Utf8Encode(f.user_secret) \o c.signature,
                                            Encode(f.auth_message), COMMON_KDF_SALT,
                                            32, f.key_material)
                   /\ f.ensure_data = Encode(f.auth_message)
                   /\ c.valid.ok
                   /\ MaterializedFrom(c.valid.scalar, f.ret_keypair)
                   /\ f.ret_keypair.eip712_signature = c.signature
            /\ (pc[p] = "raised" /\ f.op = "derive" /\ f.error = "ValueError")
                => ~c.valid.ok

\* derive has returned a keypair whose scalar needed a re-derivation, for the
\* auth message whose key_id has to be escaped and a secret that is not the
\* default
C10_Witness ==
    /\ Finished(MainProc, "derive")
    /\ frame[MainProc].retry_calls # <<>>
    /\ frame[MainProc].user_secret # DEFAULT_USER_SECRET
    /\ frame[MainProc].auth_message.key_id = <<233>>

\* one character of a string value in the canonical bytes: the two characters
\* JSON cannot hold unescaped get a backslash, every other one (32 and above)
\* is written as it is, in UTF-8
CanonicalChar(c) == IF c = 34 \/ c = 92 THEN <<92, c>> ELSE Utf8Char(c)

CanonicalString(s) == <<34>> \o ConcatMap(CanonicalChar, s) \o <<34>>

\* {"context":"<context>","keyId":"<key_id>"}
CanonicalBytes(m) ==
    <<123, 34, 99, 111, 110, 116, 101, 120, 116, 34, 58>> \o CanonicalString(m.context)
    \o <<44, 34, 107, 101, 121, 73, 100, 34, 58>> \o CanonicalString(m.key_id) \o <<125>>

\* C11: the canonical encoding of an auth message is exactly the UTF-8 bytes
\* of {"context":"<context>","keyId":"<key_id>"}, context before keyId and no
\* whitespace, for every auth message; equal auth messages encode to the same
\* bytes.
C11_CanonicalEncoding ==
    \A p, q \in Procs :
        LET f == frame[p]
            g == frame[q]
            encoded(h) == h.op \in {"derive", "verify"} /\ h.kdf_call # NoHkdfCall
        IN  /\ encoded(f) => f.derivation_data = CanonicalBytes(f.auth_message)
            /\ (encoded(f) /\ encoded(g) /\ f.auth_message = g.auth_message)
                => f.derivation_data = g.derivation_data

EmptyField(m) == m.key_id = <<>> \/ m.context = <<>>

\* C12: an auth message with an empty key_id or an empty context is rejected
\* with an InvalidInput error: derive_nillion_keypair, called with a source
\* key the signer accepts, makes no signature and returns no keypair for it.
C12_EmptyFieldRejected ==
    \A p \in Procs :
        (frame[p].op = "derive" /\ EmptyField(frame[p].auth_message)
           /\ ValidSourceKey(frame[p].ethereum_private_key))
        => /\ frame[p].binding_signature = <<>>
           /\ frame[p].ret_keypair = NoKeypair
           /\ pc[p] \in {"sign", "raised"}
           /\ pc[p] = "raised" => frame[p].error = "InvalidInput"

\* C13: derive_nillion_keypair has no partial success: nothing is returned
\* unless the call completes, and the keypair it returns is consistent:
\* private_key is the validated scalar, public_key_uncompressed its public
\* key, public_key_compressed made from public_key_uncompressed, did made from
\* public_key_compressed, auth_message the input message and eip712_signature
\* the signature that went into the HKDF input.
C13_NoPartialSuccess ==
    \A p \in Procs :
        LET f == frame[p]
            kp == f.ret_keypair
        IN  f.op = "derive"
            => /\ pc[p] # "returned" => kp = NoKeypair
               /\ pc[p] = "returned"
                    => /\ kp.private_key = f.candidate
                       /\ IsCurveScalar(kp.private_key)
                       /\ kp.public_key_uncompressed = VerifyingKeyOf(kp.private_key)
                       /\ Len(kp.public_key_uncompressed) = 64
                       /\ kp.public_key_compressed
                            = <<2 + (kp.public_key_uncompressed[64] % 2)>>
                              \o SubSeq(kp.public_key_uncompressed, 1, 32)
                       /\ kp.did = DID_PREFIX \o Hex(kp.public_key_compressed)
                       /\ kp.auth_message = f.auth_message
                       /\ kp.eip712_signature = f.binding_signature
                       /\ f.kdf_call.ikm
                            = Utf8Encode(f.user_secret) \o kp.eip712_signature

\* derive has returned a keypair whose scalar is not the candidate the loop
\* started from
C13_Witness ==
    /\ Finished(MainProc, "derive")
    /\ frame[MainProc].ret_keypair.private_key # frame[MainProc].key_material
    /\ frame[MainProc].ret_keypair.did # <<>>
    /\ frame[MainProc].user_secret = DEFAULT_USER_SECRET

\* the signer has refused the source key of the call
SigningFailed(p) ==
    /\ pc[p] \notin {"idle", "sign"}
    /\ ~IsCurveScalar(frame[p].ethereum_private_key)

\* the loop of the call has made all its range checks, each on a candidate
\* out of range
LoopExhausted(p) ==
    LET f == frame[p]
        checked(i) == IF i = 1 THEN f.key_material ELSE f.retry_calls[i - 1].out
    IN  /\ pc[p] \notin {"idle", "sign", "kdf", "loop"}
        /\ f.kdf_call # NoHkdfCall
        /\ f.checks = f.max_attempts
        /\ \A i \in 1..f.checks : ~IsCurveScalar(checked(i))

\* C14: errors are propagated, never swallowed or replaced by a default: when
\* signing fails or the loop is exhausted inside derive_nillion_keypair, the
\* call ends with that error and returns no keypair, and
\* verify_derived_keypair ends with the same error without a result.
C14_ErrorsPropagated ==
    \A p \in Procs :
        LET f == frame[p]
        IN  f.op \in {"derive", "verify"}
            => /\ SigningFailed(p)
                    => /\ pc[p] = "raised"
                       /\ f.error = "ValidationError"
                       /\ f.ret_keypair = NoKeypair
                       /\ f.ret_bool = FALSE
               /\ LoopExhausted(p)
                    => /\ pc[p] = "raised"
                       /\ f.error = "ValueError"
                       /\ f.ret_keypair = NoKeypair
                       /\ f.ret_bool = FALSE
               /\ pc[p] = "raised" => SigningFailed(p) \/ LoopExhausted(p)

\* verify_derived_keypair has ended with the exhaustion error of the loop of
\* its re-derivation, for a keypair that derive_nillion_keypair had returned
C14_Witness ==
    /\ pc[MainProc] = "raised"
    /\ frame[MainProc].op = "verify"
    /\ frame[MainProc].error = "ValueError"
    /\ frame[MainProc].origin.tampered = "none"
    /\ Len(frame[MainProc].retry_calls) = DefaultMaxAttempts

AloneGives(f, outcome, kp) ==
    IF ~IsCurveScalar(f.ethereum_private_key)
    THEN outcome = "ValidationError"
    ELSE LET c == Pipeline(f.ethereum_private_key, f.auth_message, f.user_secret)
         IN  IF ~c.valid.ok
             THEN outcome = "ValueError"
             ELSE /\ outcome = "returned"
                  /\ MaterializedFrom(c.valid.scalar, kp)
                  /\ kp.eip712_signature = c.signature
                  /\ kp.auth_message = f.auth_message

\* C16: concurrent calls of derive_nillion_keypair, with equal or distinct
\* inputs and their steps in any order, each end as the same call ends when it
\* runs alone: the outcome of a call is a function of its own inputs, whatever
\* the other call does and whatever the HD-wallet flag was.
C16_ConcurrentAsAlone ==
    \A p \in Procs :
        /\ Finished(p, "derive") => AloneGives(frame[p], "returned", frame[p].ret_keypair)
        /\ (pc[p] = "raised" /\ frame[p].op = "derive")
             => AloneGives(frame[p], frame[p].error, NoKeypair)

\* one call has returned while the other, with another secret and another
\* auth message, is in the middle of its loop
C16_Witness ==
    /\ Finished("t1", "derive")
    /\ pc["t2"] = "loop"
    /\ frame["t2"].retry_calls # <<>>
    /\ frame["t1"].user_secret # frame["t2"].user_secret
    /\ frame["t1"].auth_message # frame["t2"].auth_message

\* C17: verify_derived_keypair never changes its inputs: from the call to its
\* end, whether it returns true, returns false or raises, the keypair it was
\* given, all seven fields, and the source key are what the caller passed.
C17_VerifyKeepsInputs ==
    [][\A p \in Procs :
         frame[p].op = "verify"
         => /\ frame'[p].op = "verify"
            /\ frame'[p].keypair = frame[p].keypair
            /\ frame'[p].ethereum_private_key = frame[p].ethereum_private_key]_vars

\* the verifier has returned false for a keypair whose uncompressed public
\* key and whose signature are not the re-derived ones
C17_Witness ==
    /\ Finished(MainProc, "verify")
    /\ frame[MainProc].ret_bool = FALSE
    /\ frame[MainProc].keypair.public_key_uncompressed
         # frame[MainProc].ret_keypair.public_key_uncompressed
    /\ frame[MainProc].keypair.auth_message = frame[MainProc].auth_message

\* C18: the compressed public key has 33 bytes: the first is 0x02 when the
\* y-coordinate, the last 32 of the 64 bytes of the uncompressed key, is even
\* and 0x03 when it is odd, and the other 32 are the x-coordinate, the first
\* 32 bytes of the uncompressed key.
C18_CompressedForm ==
    \A p \in Procs :
        LET kp == frame[p].ret_keypair
            u == kp.public_key_uncompressed
            c == kp.public_key_compressed
        IN  kp # NoKeypair
            => /\ Len(u) = 64
               /\ Len(c) = 33
               /\ u[64] % 2 = 0 => c[1] = 2
               /\ u[64] % 2 = 1 => c[1] = 3
               /\ \A i \in 1..32 : c[i + 1] = u[i]

\* derive has returned the key pair of the point -G: its y-coordinate is
\* odd and its x-coordinate is even
C18_Witness ==
    /\ Finished(MainProc, "derive")
    /\ frame[MainProc].ret_keypair.public_key_uncompressed = PubNegG
    /\ frame[MainProc].ret_keypair.public_key_compressed[1] = 3
    /\ PubNegG[32] % 2 = 0

\* the value of a lowercase hexadecimal character, 16 for any other character
HexValue(c) ==
    IF c \in 48..57 THEN c - 48
    ELSE IF c \in 97..102 THEN c - 87
    ELSE 16

\* C19: every DID that derive_nillion_keypair returns is "did:nil:" followed
\* by exactly 66 lowercase hexadecimal characters, 74 characters in all, and
\* these are the hex encoding of public_key_compressed.
C19_DidFormat ==
    \A p \in Procs :
        LET kp == frame[p].ret_keypair
            did == kp.did
        IN  kp # NoKeypair
            => /\ Len(did) = 74
               /\ SubSeq(did, 1, 8) = <<100, 105, 100, 58, 110, 105, 108, 58>>
               /\ \A i \in 9..74 : HexValue(did[i]) < 16
               /\ Len(kp.public_key_compressed) = 33
               /\ \A j \in 1..33 :
                    16 * HexValue(did[7 + 2 * j]) + HexValue(did[8 + 2 * j])
                      = kp.public_key_compressed[j]

\* derive has returned a DID in which letters and digits both occur, for the
\* auth message with the key id "1"
C19_Witness ==
    /\ Finished(MainProc, "derive")
    /\ frame[MainProc].auth_message.key_id = Str_1
    /\ \E i, j \in 9..74 :
         /\ frame[MainProc].ret_keypair.did[i] \in 97..102
         /\ frame[MainProc].ret_keypair.did[j] \in 48..57

\* the output keying material of HKDF over the HMAC of the model: the blocks
\* T(1) .. T(n) one after the other, cut to len bytes
HkdfOkm(ikm, info, salt, len) ==
    LET prk == Hmac(salt, ikm)
        n == (len + 31) \div 32
        T[i \in 0..n] == IF i = 0 THEN <<>> ELSE Hmac(prk, T[i - 1] \o info \o <<i>>)
        blocks[i \in 0..n] == IF i = 0 THEN <<>> ELSE blocks[i - 1] \o T[i]
    IN  [i \in 1..len |-> blocks[n][i]]

\* the call c of hkdf returned what the definition gives for its arguments
AsDefined(c) ==
    /\ Len(c.out) = c.len
    /\ c.out = HkdfOkm(c.ikm, c.info, c.salt, c.len)

\* C20: hkdf computes prk = HMAC(salt, ikm), T(i) = HMAC(prk, T(i-1) || info
\* || byte(i)) for i = 1..ceil(output_length / 32) with T(0) empty, and
\* returns T(1) || ... || T(n) cut to output_length bytes; without a salt it
\* uses "SIGNATURE_INTEGRATED_KDF_v1"; the result is a function of the four
\* arguments.
C20_HkdfDefinition ==
    \A p \in Procs :
        LET f == frame[p]
        IN  /\ f.kdf_call # NoHkdfCall => AsDefined(f.kdf_call)
            /\ \A i \in 1..Len(f.retry_calls) : AsDefined(f.retry_calls[i])
            /\ Finished(p, "hkdf") => f.ret_bytes = f.kdf_call.out
            /\ (f.kdf_call # NoHkdfCall /\ ~f.salt_given /\ f.op # "ensure")
                 => f.kdf_call.salt = <<83, 73, 71, 78, 65, 84, 85, 82, 69, 95, 73, 78, 84, 69, 71, 82, 65, 84, 69, 68, 95, 75, 68, 70, 95, 118, 49>>

\* hkdf has returned 33 bytes, one more than a block, for a call without a salt
C20_Witness ==
    /\ Finished(MainProc, "hkdf")
    /\ ~frame[MainProc].salt_given
    /\ frame[MainProc].kdf_call.len = 33
    /\ Len(frame[MainProc].ret_bytes) = 33
    /\ frame[MainProc].kdf_call.info # <<>>

\* the signature of the call of p is in place, made for its own auth message,
\* and it is the one in the HKDF input and in the keypair returned
OwnSignature(p) ==
    LET f == frame[p]
    IN  /\ pc[p] \in {"kdf", "loop", "materialize", "returned"} => f.binding_signature # <<>>
        /\ f.binding_signature # <<>>
             => /\ f.binding_signature
                     = SignatureOf(f.ethereum_private_key,
                                   create_eip712_typed_data(f.auth_message))
                /\ f.kdf_call # NoHkdfCall
                     => f.kdf_call.ikm = Utf8Encode(f.user_secret) \o f.binding_signature
                /\ pc[p] = "returned"
                     => f.ret_keypair.eip712_signature = f.binding_signature

\* C21: a call of derive_nillion_keypair makes its signature once, over its
\* own auth message: the signature does not change once it is made, the one
\* in the HKDF input and the one in eip712_signature are that value, and
\* calls for different auth messages never derive from the same signature.
C21_SignatureOncePerDerivation ==
    /\ [](\A p \in Procs : OwnSignature(p))
    /\ [](\A p, q \in Procs :
            (/\ frame[p].binding_signature # <<>>
             /\ frame[q].binding_signature # <<>>
             /\ frame[p].auth_message # frame[q].auth_message)
            => frame[p].binding_signature # frame[q].binding_signature)
    /\ [][\A p \in Procs :
            frame[p].binding_signature # <<>>
            => frame'[p].binding_signature = frame[p].binding_signature]_vars

\* two calls with the same source key and different auth messages have both
\* returned
C21_Witness ==
    /\ Finished("t1", "derive")
    /\ Finished("t2", "derive")
    /\ frame["t1"].ethereum_private_key = frame["t2"].ethereum_private_key
    /\ frame["t1"].auth_message # frame["t2"].auth_message
    /\ frame["t1"].ret_keypair.eip712_signature # frame["t2"].ret_keypair.eip712_signature

\* the key material stored in a keypair has the lengths of a scalar and of a
\* compressed and an uncompressed point
WellFormedKeyMaterial(kp) ==
    /\ Len(kp.private_key) = 32
    /\ Len(kp.public_key_compressed) = 33
    /\ Len(kp.public_key_uncompressed) = 64

\* C22: verify_derived_keypair on a keypair whose stored private key or public
\* key has the wrong byte length ends with an EncodingError and returns no
\* boolean.
C22_MalformedKeyMaterialRaises ==
    \A p \in Procs :
        (/\ frame[p].op = "verify"
         /\ pc[p] \in {"returned", "raised"}
         /\ ValidSourceKey(frame[p].ethereum_private_key)
         /\ ~WellFormedKeyMaterial(frame[p].keypair))
        => pc[p] = "raised" /\ frame[p].error = "EncodingError"

\* the k-th re-derivation of the call gave the first valid candidate: the
\* initial candidate and the k - 1 re-derived candidates before it are invalid
FirstValidAt(f, k) ==
    /\ k \in 1..Len(f.retry_calls)
    /\ ~IsCurveScalar(f.key_material)
    /\ \A i \in 1..(k - 1) : ~IsCurveScalar(f.retry_calls[i].out)
    /\ IsCurveScalar(f.retry_calls[k].out)

\* C24: for every k with 1 <= k <= max_attempts, when the initial candidate
\* and the first k - 1 re-derived candidates are invalid and the k-th
\* re-derivation gives a valid scalar, ensure_valid_secp256k1_key returns that
\* scalar: no derived candidate is left unchecked when exhaustion is reported.
C24_EveryDerivedCandidateChecked ==
    \A p \in Procs :
        \A k \in 1..MaxAttempts :
            (/\ frame[p].op = "ensure"
             /\ k <= frame[p].max_attempts
             /\ FirstValidAt(frame[p], k)
             /\ pc[p] \in {"returned", "raised"})
            => /\ pc[p] = "returned"
               /\ frame[p].ret_bytes = frame[p].retry_calls[k].out

\* C25: with max_attempts <= 0, ensure_valid_secp256k1_key raises the
\* exhaustion error at once: it makes no range check and no HKDF call and
\* returns nothing, also when the initial candidate is a valid scalar.
C25_NonPositiveMaxAttemptsRaises ==
    \A p \in Procs :
        (frame[p].op = "ensure" /\ frame[p].max_attempts <= 0)
        => /\ frame[p].checks = 0
           /\ frame[p].retry_calls = <<>>
           /\ frame[p].counter = 0
           /\ pc[p] # "returned"
           /\ pc[p] = "raised" => frame[p].error = "ValueError"

\* the loop has raised for the valid candidate n - 1 and max_attempts = 0
C25_Witness ==
    /\ pc[MainProc] = "raised"
    /\ frame[MainProc].op = "ensure"
    /\ frame[MainProc].max_attempts = 0
    /\ frame[MainProc].key_material = OrderMinus1
    /\ frame[MainProc].error = "ValueError"

\* the number that the last four bytes of the input key material of a
\* re-derivation encode, big-endian
CounterFed(call) ==
    LET n == Len(call.ikm)
    IN  ((call.ikm[n - 3] * 256 + call.ikm[n - 2]) * 256 + call.ikm[n - 1]) * 256
            + call.ikm[n]

\* C26: all through ensure_valid_secp256k1_key the counter is the number of
\* HKDF re-derivations made so far and, for max_attempts >= 0, lies between 0
\* and max_attempts; the i-th re-derivation is fed the counter value i, so the
\* values are 1, 2, 3, ... with none skipped or repeated; a returned
\* candidate is the one the latest range check looked at.
C26_CounterDiscipline ==
    \A p \in Procs :
        LET f == frame[p]
        IN  f.op \in {"ensure", "derive", "verify"}
            => /\ f.counter = Len(f.retry_calls)
               /\ f.max_attempts >= 0 => (0 <= f.counter /\ f.counter <= f.max_attempts)
               /\ \A i \in 1..Len(f.retry_calls) : CounterFed(f.retry_calls[i]) = i
               /\ (f.op = "ensure" /\ pc[p] = "returned")
                    => /\ f.ret_bytes = f.last_checked
                       /\ f.checks = f.counter + 1
               /\ f.private_key # <<>> => f.private_key = f.last_checked

\* the loop, called with max_attempts = MaxAttempts, has returned the
\* candidate of its second range check, after one re-derivation
C26_Witness ==
    /\ frame[MainProc].op = "ensure"
    /\ frame[MainProc].max_attempts = MaxAttempts
    /\ pc[MainProc] = "returned"
    /\ frame[MainProc].counter = 1
    /\ frame[MainProc].checks = 2
    /\ frame[MainProc].ret_bytes = frame[MainProc].retry_calls[1].out
    /\ frame[MainProc].ret_bytes = OrderMinus1
    /\ frame[MainProc].key_material = Zero32

\* C27: ensure_valid_secp256k1_key fails in one way only, with the exhaustion
\* error: whatever max_attempts is, also above 2^32 - 1 with every candidate
\* invalid, the counter fits in its 4 big-endian bytes and no other error
\* is raised.
C27_OnlyExhaustionFails ==
    \A p \in Procs :
        frame[p].op = "ensure"
        => /\ ~IntToBytesOverflows(frame[p].counter, COUNTER_BYTES)
           /\ pc[p] = "raised" => frame[p].error = "ValueError"

\* a call of verify_did_key has ended: it has returned, or an exception has
\* left the function
VerifyDidEnded(p) ==
    /\ frame[p].op = "verify_did"
    /\ \/ pc[p] = "returned"
       \/ pc[p] = "raised" /\ ~frame[p].in_try

\* C28: verify_did_key never raises, and it returns True only when the stored
\* DID, Nillion private key, compressed public key, uncompressed public key,
\* EIP-712 signature and Ethereum address all equal those of the
\* re-derivation; a difference or an absent entry in any of them gives False.
C28_VerifyDidKeyChecksAllSix ==
    \A p \in Procs :
        VerifyDidEnded(p)
        => /\ pc[p] = "returned"
           /\ frame[p].ret_bool = TRUE
                => LET kf == frame[p].key_file
                       re_derived == frame[p].ret_keypair
                   IN  /\ re_derived # NoKeypair
                       /\ StoredIs(kf, "did", re_derived.did)
                       /\ StoredIs(kf, "nillion_private_key", Hex(re_derived.private_key))
                       /\ StoredIs(kf, "nillion_public_key_compressed",
                                   Hex(re_derived.public_key_compressed))
                       /\ StoredIs(kf, "nillion_public_key_uncompressed",
                                   Hex(re_derived.public_key_uncompressed))
                       /\ StoredIs(kf, "eip712_signature", Hex(re_derived.eip712_signature))
                       /\ StoredIs(kf, "ethereum_address", re_derived.ethereum_address)

\* "m/44'/60'/0'/0/<index>" for an index of one digit
PathOfIndex(path, index) ==
    /\ Len(path) = Len(PathPrefix) + 1
    /\ SubSeq(path, 1, Len(PathPrefix)) = PathPrefix
    /\ path[Len(path)] = 48 + index

\* C29: after any sequence of generate_patient_id calls on one generator,
\* current_key_index has grown by one for each call; the key_index values in
\* the key materials returned are pairwise distinct and follow the call
\* order, the n-th call recording n - 1; and each recorded derivation_path is
\* m/44'/60'/0'/0/<key_index>, the path at which the Ethereum account of that
\* call, whose key the key material holds, was derived.
C29_KeyIndexDiscipline ==
    /\ current_key_index = Len(generate_calls)
    /\ \A n \in 1..Len(generate_calls) :
         LET call == generate_calls[n]
             km == call.key_material
         IN  /\ call.index_before = n - 1
             /\ PathOfIndex(call.account_path, n - 1)
             /\ km # NoKeyMaterial
                  => /\ km.key_index = n - 1
                     /\ PathOfIndex(km.derivation_path, km.key_index)
                     /\ km.derivation_path = call.account_path
                     /\ km.ethereum_private_key = Hex(HdKeys[km.key_index + 1])
    /\ \A m, n \in 1..Len(generate_calls) :
         (/\ m # n
          /\ generate_calls[m].key_material # NoKeyMaterial
          /\ generate_calls[n].key_material # NoKeyMaterial)
         => generate_calls[m].key_material.key_index
              # generate_calls[n].key_material.key_index

\* MaxPatients calls of generate_patient_id have returned their key materials
C29_Witness ==
    /\ Len(generate_calls) = MaxPatients
    /\ \A n \in 1..MaxPatients : generate_calls[n].key_material # NoKeyMaterial
    /\ Finished(MainProc, "generate")
    /\ frame[MainProc].ret_key_material = generate_calls[MaxPatients].key_material
    /\ frame[MainProc].ret_key_material.key_index = MaxPatients - 1

====
